---- MODULE Spec2Model ----
(***************************************************************************)
(* Model of src/vks.py: the profile review bot.                            *)
(*                                                                         *)
(* State: the lines of profiles.txt, the process-wide set                  *)
(* reviewed_globally, the sessions dictionary, and for every user the      *)
(* position of the handler that is serving that user's update.  A handler  *)
(* is a coroutine: it runs without interruption from one await to the      *)
(* next, and handlers serving different users interleave at their awaits.  *)
(* One user's updates are served one at a time.                            *)
(*                                                                         *)
(* Text is modelled as a sequence of tokens: a url token ("a", "b"), the   *)
(* blank " ", the separator "|" and the label text "x".  A line of the     *)
(* file is such a sequence; a url (queue element, current, member of       *)
(* reviewed_globally) is the sequence left after split("|")[0].strip().    *)
(***************************************************************************)
EXTENDS Integers, Sequences, FiniteSets, Bags, TLC

VARIABLES
    file,               \* profiles.txt: whether it exists, and the lines splitlines() returns
    reviewed_globally,  \* set of urls
    sessions,           \* user_id -> Session, domain = users that have a session
    pc,                 \* user_id -> where that user's handler is suspended
    buttons,            \* user_id -> urls of delivered messages whose keyboard is live
    judgments,          \* history: bag of <<user_id, url, action>> applied by on_callback
    skipped,            \* history: user_id -> urls popped by /skip since the user's last /start
    order,              \* history: user_id -> what is left of the queue the user's last
                        \*          /start assigned after the url last made current, and
                        \*          whether every url made current since was found there
    observe             \* which of the histories is being recorded (fixed by Init)

vars == <<file, reviewed_globally, sessions, pc, buttons, judgments, skipped, order, observe>>

----------------------------------------------------------------------------
(* Bounds *)

MaxLines == 2

Users == {1, 2}

NoFile == [exists |-> FALSE, lines |-> <<>>]

FileOf(lines) == [exists |-> TRUE, lines |-> lines]

\* None, and every other falsy str: what "not session.current" accepts
None == <<>>

\* the lines a file is built from: a bare url, and a second url padded and
\* labelled (" url | Name")
LineSet == { <<"a">>, <<" ", "b", " ", "|", "x">> }

Actions == {"yes", "no"}

\* what get_avatar_path hands back to send_next
FetchOutcomes == {"image", "meta", "nothing", "raise"}

----------------------------------------------------------------------------
(* str helpers *)

RECURSIVE LStrip(_)
LStrip(s) == IF s # <<>> /\ Head(s) = " " THEN LStrip(Tail(s)) ELSE s

RECURSIVE RStrip(_)
RStrip(s) == IF s # <<>> /\ s[Len(s)] = " " THEN RStrip(SubSeq(s, 1, Len(s) - 1)) ELSE s

Strip(s) == RStrip(LStrip(s))

\* s.split("|")[0]
RECURSIVE SplitFirst(_)
SplitFirst(s) ==
    IF s = <<>> \/ Head(s) = "|" THEN <<>>
    ELSE <<Head(s)>> \o SplitFirst(Tail(s))

\* l.split("|")[0].strip()
UrlOf(l) == Strip(SplitFirst(l))

\* list.remove(x) guarded by "x in list": drops the first occurrence only
RECURSIVE RemoveFirst(_, _)
RemoveFirst(q, x) ==
    IF q = <<>> THEN <<>>
    ELSE IF Head(q) = x THEN Tail(q)
    ELSE <<Head(q)>> \o RemoveFirst(Tail(q), x)

\* every order random.shuffle can leave a list in
RECURSIVE Shuffles(_)
Shuffles(q) ==
    IF q = <<>> THEN { <<>> }
    ELSE UNION { { <<q[i]>> \o rest :
                     rest \in Shuffles(SubSeq(q, 1, i - 1) \o SubSeq(q, i + 1, Len(q))) } :
                 i \in 1..Len(q) }

\* the urls that occur in files built from LineSet
Urls == { UrlOf(l) : l \in LineSet } \ { <<>> }

----------------------------------------------------------------------------
(* Session, get_session *)

NewSession == [queue |-> <<>>, current |-> None, accepted |-> <<>>]

get_session(ss, u) == IF u \in DOMAIN ss THEN ss ELSE ss @@ (u :> NewSession)

----------------------------------------------------------------------------
(* profiles.txt *)

\* Loadable without the "not in reviewed_globally" test
RECURSIVE LoadableUnfiltered(_, _)
LoadableUnfiltered(lines, reviewed) ==
    IF lines = <<>> THEN <<>>
    ELSE LET line == Strip(Head(lines))
             url  == UrlOf(line)
             rest == LoadableUnfiltered(Tail(lines), reviewed)
         IN  IF line = <<>> THEN rest
             ELSE IF url # <<>> THEN <<url>> \o rest
             ELSE rest

\* the urls of the file that pass the filter, in file order (before the shuffle)
RECURSIVE Loadable(_, _)
Loadable(lines, reviewed) ==
    IF lines = <<>> THEN <<>>
    ELSE LET line == Strip(Head(lines))
             url  == UrlOf(line)
             rest == Loadable(Tail(lines), reviewed)
         IN  IF line = <<>> THEN rest
             ELSE IF url # <<>> /\ url \notin reviewed THEN <<url>> \o rest
             ELSE rest

load_profiles(f, reviewed) ==
    IF ~f.exists THEN { <<>> } ELSE Shuffles(Loadable(f.lines, reviewed))

\* write_text("\n".join(filtered) + "\n") read back with splitlines()
WrittenLines(filtered) == IF filtered = <<>> THEN << <<>> >> ELSE filtered

\* remove_profile comparing the whole stripped line with the url
remove_profile_whole_line(f, url) ==
    IF ~f.exists THEN f
    ELSE FileOf(WrittenLines(SelectSeq(f.lines, LAMBDA l : Strip(l) # url)))

\* remove_profile dropping only the first line of the url
remove_profile_first_line(f, url) ==
    IF ~f.exists THEN f
    ELSE LET first == { i \in 1..Len(f.lines) :
                          UrlOf(f.lines[i]) = url
                          /\ \A j \in 1..(i - 1) : UrlOf(f.lines[j]) # url }
             kept  == [i \in 1..Len(f.lines) |-> <<i, f.lines[i]>>]
         IN  FileOf(WrittenLines(
                 [i \in 1..Len(SelectSeq(kept, LAMBDA p : p[1] \notin first)) |->
                     SelectSeq(kept, LAMBDA p : p[1] \notin first)[i][2]]))

remove_profile(f, url) ==
    IF ~f.exists THEN f
    ELSE FileOf(WrittenLines(SelectSeq(f.lines, LAMBDA l : UrlOf(l) # url)))

----------------------------------------------------------------------------
(* mark_reviewed: the part that touches the sessions *)

PurgeSession(s, url) ==
    [s EXCEPT !.queue   = RemoveFirst(@, url),
              !.current = IF @ = url THEN None ELSE @]

mark_reviewed(ss, url) == [u \in DOMAIN ss |-> PurgeSession(ss[u], url)]

----------------------------------------------------------------------------
(* handler positions *)

Idle == [at |-> "idle", owner |-> 0, action |-> "", url |-> None, msg |-> None]

At(u, loc) == pc[u].at = loc

\* send_next up to its first await: the session after it, and where it stops
\* (on an empty queue that await is the "review finished" message and
\* send_next returns after it)
\* send_next taking the last url of the queue instead of queue[0]
SendNextSessionLast(s) ==
    IF s.queue = <<>> THEN s ELSE [s EXCEPT !.current = s.queue[Len(s.queue)]]

SendNextSession(s) ==
    IF s.queue = <<>> THEN s ELSE [s EXCEPT !.current = Head(s.queue)]

SendNextPc(s) ==
    IF s.queue = <<>> THEN Idle
    ELSE [Idle EXCEPT !.at = "sn_fetch", !.url = Head(s.queue)]

send_next(ss, u) ==
    LET ss1 == get_session(ss, u)
    IN  [ss1 EXCEPT ![u] = SendNextSession(@)]

send_next_pc(ss, u) == SendNextPc(get_session(ss, u)[u])

\* q after its first occurrence of x
RECURSIVE After(_, _)
After(q, x) == IF Head(q) = x THEN Tail(q) ELSE After(Tail(q), x)

\* the record of the urls made current, after send_next has run for u on
\* sessions ss: it makes the head of a non-empty queue current, and on an
\* empty queue the review is over and nothing of the loaded queue is left
Shown(ss, u) ==
    LET s == get_session(ss, u)[u]
    IN  IF observe # "order" THEN order
        ELSE IF s.queue = <<>> THEN [order EXCEPT ![u].rest = <<>>]
        ELSE [order EXCEPT ![u] =
                 IF \E i \in 1..Len(@.rest) : @.rest[i] = Head(s.queue)
                 THEN [rest |-> After(@.rest, Head(s.queue)), fifo |-> @.fifo]
                 ELSE [rest |-> <<>>, fifo |-> FALSE]]

----------------------------------------------------------------------------
InitProgram ==
    /\ file \in {NoFile} \cup { FileOf(l) : l \in UNION { [1..n -> LineSet] : n \in 0..MaxLines } }
    /\ reviewed_globally = {}
    /\ sessions = << >>
    /\ pc = [u \in Users |-> Idle]
    /\ buttons = [u \in Users |-> {}]
    /\ judgments = EmptyBag
    /\ skipped = [u \in Users |-> {}]
    /\ order = [u \in Users |-> [rest |-> <<>>, fifo |-> TRUE]]

\* the program with no history recorded
Init == InitProgram /\ observe = "nothing"

\* the program with the applied verdicts recorded
InitJudgments == InitProgram /\ observe = "judgments"

\* the program with the skipped urls recorded
InitSkips == InitProgram /\ observe = "skipped"

\* the program with the order of the urls made current recorded
InitOrder == InitProgram /\ observe = "order"

----------------------------------------------------------------------------
(* /start *)

\* the sessions after cmd_start has run up to its first await, load_profiles
\* having returned profiles
cmd_start(ss, u, profiles) ==
    IF profiles = <<>> THEN get_session(ss, u)
    ELSE [get_session(ss, u) EXCEPT ![u] = [queue    |-> profiles,
                                            accepted |-> <<>>,
                                            current  |-> None]]

\* cmd_start that also empties reviewed_globally
CmdStartForgetting(u) ==
    /\ At(u, "idle")
    /\ \E profiles \in load_profiles(file, reviewed_globally) :
         /\ sessions' = cmd_start(sessions, u, profiles)
         /\ pc' = IF profiles = <<>> THEN pc
                  ELSE [pc EXCEPT ![u] = [Idle EXCEPT !.at = "start_reply"]]
    /\ reviewed_globally' = {}
    /\ UNCHANGED <<file, buttons, judgments, skipped, order, observe>>

\* cmd_start up to its first await; with nothing to load that await is the
\* "no profiles" reply and the handler returns after it
CmdStart(u) ==
    /\ At(u, "idle")
    /\ \E profiles \in load_profiles(file, reviewed_globally) :
         /\ sessions' = cmd_start(sessions, u, profiles)
         /\ pc' = IF profiles = <<>> THEN pc
                  ELSE [pc EXCEPT ![u] = [Idle EXCEPT !.at = "start_reply"]]
    /\ skipped' = [skipped EXCEPT ![u] = {}]
    /\ order' = IF observe = "order" /\ pc'[u].at = "start_reply"
                THEN [order EXCEPT ![u] = [rest |-> sessions'[u].queue, fifo |-> TRUE]]
                ELSE order
    /\ UNCHANGED <<file, reviewed_globally, buttons, judgments, observe>>

\* cmd_start resumes after reply_text and enters send_next
StartReplied(u) ==
    /\ At(u, "start_reply")
    /\ sessions' = send_next(sessions, u)
    /\ pc' = [pc EXCEPT ![u] = send_next_pc(sessions, u)]
    /\ order' = Shown(sessions, u)
    /\ UNCHANGED <<file, reviewed_globally, buttons, judgments, skipped, observe>>

----------------------------------------------------------------------------
(* send_next after its first await *)

\* get_avatar_path returns or raises.  If it raises, send_next is left with
\* nothing sent; otherwise the photo or the text message reaches the user with
\* the yes/no keyboard, and send_next returns after that last await.
Fetched(u, outcome) ==
    /\ At(u, "sn_fetch")
    /\ buttons' = IF outcome = "raise" THEN buttons
                  ELSE [buttons EXCEPT ![u] = @ \cup {pc[u].url}]
    /\ pc' = [pc EXCEPT ![u] = Idle]
    /\ UNCHANGED <<file, reviewed_globally, sessions, judgments, skipped, order, observe>>

----------------------------------------------------------------------------
(* /skip, /status, /accepted *)

\* cmd_skip that also deletes the skipped url from the file
CmdSkipDeleting(u) ==
    /\ At(u, "idle")
    /\ LET ss     == get_session(sessions, u)
           popped == [ss EXCEPT ![u].queue = IF @ # <<>> THEN Tail(@) ELSE @]
       IN  /\ sessions' = send_next(popped, u)
           /\ pc' = [pc EXCEPT ![u] = send_next_pc(popped, u)]
           /\ file' = IF ss[u].queue # <<>> THEN remove_profile(file, Head(ss[u].queue))
                      ELSE file
           /\ order' = Shown(popped, u)
    /\ UNCHANGED <<reviewed_globally, buttons, judgments, skipped, observe>>

CmdSkip(u) ==
    /\ At(u, "idle")
    /\ LET ss     == get_session(sessions, u)
           popped == [ss EXCEPT ![u].queue = IF @ # <<>> THEN Tail(@) ELSE @]
       IN  /\ sessions' = send_next(popped, u)
           /\ pc' = [pc EXCEPT ![u] = send_next_pc(popped, u)]
           /\ skipped' = [skipped EXCEPT ![u] =
                              IF observe = "skipped" /\ ss[u].queue # <<>>
                              THEN @ \cup {Head(ss[u].queue)} ELSE @]
           /\ order' = Shown(popped, u)
    /\ UNCHANGED <<file, reviewed_globally, buttons, judgments, observe>>

CmdStatus(u) ==
    /\ At(u, "idle")
    /\ sessions' = get_session(sessions, u)
    /\ UNCHANGED <<file, reviewed_globally, pc, buttons, judgments, skipped, order, observe>>

CmdAccepted(u) ==
    /\ At(u, "idle")
    /\ sessions' = get_session(sessions, u)
    /\ UNCHANGED <<file, reviewed_globally, pc, buttons, judgments, skipped, order, observe>>

----------------------------------------------------------------------------
(* on_callback *)

\* on_callback from its start to its first await after "await query.answer()":
\* the sessions it leaves
on_callback_sessions(ss, from_user, owner_id) ==
    IF from_user # owner_id THEN ss ELSE get_session(ss, owner_id)

\* on_callback_pc without the owner check
on_callback_pc_any_sender(ss, from_user, owner_id, msg, action) ==
    LET session == get_session(ss, owner_id)[owner_id]
    IN  IF session.current = None THEN Idle
        ELSE [Idle EXCEPT !.at = "cb_edit", !.owner = owner_id, !.action = action,
                          !.msg = msg, !.url = session.current]

\* on_callback_pc taking as url the url of the pressed message
on_callback_pc_pressed(ss, from_user, owner_id, msg, action) ==
    IF from_user # owner_id THEN Idle
    ELSE LET session == get_session(ss, owner_id)[owner_id]
         IN  IF session.current = None THEN Idle
             ELSE [Idle EXCEPT !.at = "cb_edit", !.owner = owner_id, !.action = action,
                               !.msg = msg, !.url = msg]

\* ... and where it stops: it returns after the "not your session" alert or on
\* an empty current, else it holds url and awaits edit_message_reply_markup
on_callback_pc(ss, from_user, owner_id, msg, action) ==
    IF from_user # owner_id THEN Idle
    ELSE LET session == get_session(ss, owner_id)[owner_id]
         IN  IF session.current = None THEN Idle
             ELSE [Idle EXCEPT !.at = "cb_edit", !.owner = owner_id, !.action = action,
                               !.msg = msg, !.url = session.current]

\* from_user presses action on the message that presented msg to owner_id (the
\* callback data carries only the action and the owner's id)
OnCallback(from_user, owner_id, msg, action) ==
    /\ At(from_user, "idle")
    /\ msg \in buttons[owner_id]
    /\ sessions' = on_callback_sessions(sessions, from_user, owner_id)
    /\ pc' = [pc EXCEPT ![from_user] =
                 on_callback_pc(sessions, from_user, owner_id, msg, action)]
    /\ UNCHANGED <<file, reviewed_globally, buttons, judgments, skipped, order, observe>>

\* the verdict is applied, up to "await send_message"; removing the keyboard
\* may have failed (the except clause swallows it)
CallbackApplied(from_user, edited) ==
    /\ At(from_user, "cb_edit")
    /\ LET owner_id == pc[from_user].owner
           url      == pc[from_user].url
           action   == pc[from_user].action
       IN  /\ buttons' = IF edited
                         THEN [buttons EXCEPT ![owner_id] = @ \ {pc[from_user].msg}]
                         ELSE buttons
           /\ IF action = "yes"
              THEN /\ sessions' = mark_reviewed(
                          [sessions EXCEPT ![owner_id].accepted = Append(@, url)], url)
                   /\ file' = file
              ELSE /\ sessions' = mark_reviewed(sessions, url)
                   /\ file' = remove_profile(file, url)
           /\ reviewed_globally' = reviewed_globally \cup {url}
           /\ judgments' = IF observe = "judgments"
                           THEN judgments (+) SetToBag({<<owner_id, url, action>>})
                           ELSE judgments
           /\ pc' = [pc EXCEPT ![from_user] =
                        [Idle EXCEPT !.at = "cb_sent", !.owner = owner_id]]
           /\ UNCHANGED <<skipped, order, observe>>

\* on_callback resumes after the confirmation message and enters send_next
CallbackSent(from_user) ==
    /\ At(from_user, "cb_sent")
    /\ sessions' = send_next(sessions, pc[from_user].owner)
    /\ pc' = [pc EXCEPT ![from_user] = send_next_pc(sessions, pc[from_user].owner)]
    /\ order' = Shown(sessions, pc[from_user].owner)
    /\ UNCHANGED <<file, reviewed_globally, buttons, judgments, skipped, observe>>

----------------------------------------------------------------------------
Next ==
    \/ \E u \in Users : CmdStart(u)
    \/ \E u \in Users : StartReplied(u)
    \/ \E u \in Users, outcome \in FetchOutcomes : Fetched(u, outcome)
    \/ \E u \in Users : CmdSkip(u)
    \/ \E u \in Users : CmdStatus(u)
    \/ \E u \in Users : CmdAccepted(u)
    \/ \E f \in Users, o \in Users, m \in Urls, a \in Actions : OnCallback(f, o, m, a)
    \/ \E f \in Users, edited \in BOOLEAN : CallbackApplied(f, edited)
    \/ \E f \in Users : CallbackSent(f)

Spec == Init /\ [][Next]_vars

SpecJudgments == InitJudgments /\ [][Next]_vars

SpecSkips == InitSkips /\ [][Next]_vars

SpecOrder == InitOrder /\ [][Next]_vars

----------------------------------------------------------------------------
(* Vocabulary of the properties *)

Elems(q) == { q[i] : i \in 1..Len(q) }

Occurrences(q, x) == Cardinality({ i \in 1..Len(q) : q[i] = x })

HasSession(u) == u \in DOMAIN sessions

\* the lines of the file that are entries of url k
LinesOf(f, k) == { i \in 1..Len(f.lines) : UrlOf(f.lines[i]) = k }

InStore(k) == LinesOf(file, k) # {}

\* user u has applied action a to url k
Judged(u, k, a) == BagIn(<<u, k, a>>, judgments)

Retired(u, k) == \E a \in Actions : Judged(u, k, a)

\* the step delivers to u the first message presenting k with the yes/no keyboard
PresentsTo(u, k) ==
    At(u, "sn_fetch") /\ pc[u].url = k /\ k \notin buttons[u] /\ k \in buttons'[u]

\* the step sets u's current to k
MakesCurrent(u, k) ==
    /\ u \in DOMAIN sessions'
    /\ sessions'[u].current = k
    /\ ~(HasSession(u) /\ sessions[u].current = k)

\* the step applies the verdict that u's on_callback is holding
AppliesVerdict(u) == At(u, "cb_edit") /\ pc'[u].at = "cb_sent"

----------------------------------------------------------------------------
(* C1 *)

\* C1: once a verdict of user c1 has retired url k, no message presenting k is
\* delivered to another user c2 afterwards and c2's current is never set to k
\* afterwards.
C1_DedupInvariant ==
    [][\A c1, c2 \in Users, k \in Urls :
          (c1 # c2 /\ Retired(c1, k)) => ~PresentsTo(c2, k) /\ ~MakesCurrent(c2, k)]_vars

----------------------------------------------------------------------------
(* C2 *)

\* how often k has been appended to an accepted list
TimesAccepted(k) ==
    LET RECURSIVE Sum(_)
        Sum(U) == IF U = {} THEN 0
                  ELSE LET u == CHOOSE x \in U : TRUE
                       IN  CopiesIn(<<u, k, "yes">>, judgments) + Sum(U \ {u})
    IN  Sum(Users)

\* how often a reject has removed k from the file: the first reject of k takes
\* every line of k away, a later one finds none
TimesRemoved(k) == IF \E u \in Users : Judged(u, k, "no") THEN 1 ELSE 0

\* C2: for every url k, the number of times k was appended to an accepted list
\* plus the number of times a reject removed k from the file is at most 1.
C2_AtMostOneJudgment ==
    \A k \in Urls : TimesAccepted(k) + TimesRemoved(k) <= 1

----------------------------------------------------------------------------
(* C3 *)

Opposite(a) == IF a = "yes" THEN "no" ELSE "yes"

\* k is in exactly one outcome bucket: in exactly one accepted list and still
\* in the file, or gone from the file and in no accepted list
OneBucket(ss, f, k) ==
    LET holders == { u \in DOMAIN ss : k \in Elems(ss[u].accepted) }
    IN  \/ /\ Cardinality(holders) = 1
           /\ \A u \in holders : Occurrences(ss[u].accepted, k) = 1
           /\ LinesOf(f, k) # {}
        \/ /\ holders = {}
           /\ LinesOf(f, k) = {}

\* C3: when two users hold the same url k as current and one accepts while the
\* other rejects, their on_callback handlers overlapping, then after the second
\* handler has run k is in exactly one outcome bucket and only one of the two
\* verdicts has been applied.
C3_RaceOneBucket ==
    [][\A f, g \in Users :
          ( /\ f # g
            /\ AppliesVerdict(g)
            /\ sessions[g].current # pc[g].url
            /\ Judged(f, pc[g].url, Opposite(pc[g].action)) )
          => /\ OneBucket(sessions', file', pc[g].url)
             /\ judgments' = judgments]_vars

----------------------------------------------------------------------------
(* C4 *)

\* C4: a verdict pressed on the message that presented url k to user u changes
\* nothing when u's current is not k at the time on_callback reads it:
\* reviewed_globally, the file and every session stay as they are.
C4_StaleActionNoOp ==
    [][\A u \in Users :
          (AppliesVerdict(u) /\ pc[u].msg # pc[u].url)
          => UNCHANGED <<reviewed_globally, file, sessions>>]_vars

----------------------------------------------------------------------------
(* C5 *)

\* C5: whenever user u can send /start, the synchronous part of cmd_start
\* leaves u's accepted empty, u's current empty and u's queue equal to the
\* freshly loaded list, however many unreviewed profiles the file holds.
C5_StartAlwaysResets ==
    \A u \in Users :
        At(u, "idle")
        => \A profiles \in load_profiles(file, reviewed_globally) :
              LET s == cmd_start(sessions, u, profiles)[u]
              IN  /\ s.accepted = <<>>
                  /\ s.current = None
                  /\ s.queue = profiles

----------------------------------------------------------------------------
(* C6 *)

\* C6: a url that user u has skipped since u's last /start is not the url of
\* any verdict u applies.
C6_SkipExcludes ==
    [][\A u \in Users : AppliesVerdict(u) => pc[u].url \notin skipped[u]]_vars

----------------------------------------------------------------------------
(* C7 *)

SessionOf(u) == IF HasSession(u) THEN sessions[u] ELSE NewSession

\* C7: /skip by u takes the head off u's own queue and nothing else: the file,
\* reviewed_globally, u's accepted and every other user's session are unchanged.
C7_SkipNonDestructive ==
    [][\A u \in Users :
          CmdSkip(u)
          => /\ file' = file
             /\ reviewed_globally' = reviewed_globally
             /\ sessions'[u].queue = IF SessionOf(u).queue = <<>> THEN <<>>
                                     ELSE Tail(SessionOf(u).queue)
             /\ sessions'[u].accepted = SessionOf(u).accepted
             /\ DOMAIN sessions' = DOMAIN sessions \cup {u}
             /\ \A v \in DOMAIN sessions \ {u} : sessions'[v] = sessions[v]]_vars

\* u has skipped k after accepting another profile (k is in the file,
\* unreviewed and out of u's queue although u's session was started from this
\* file), and k is still waiting in another user's queue
C7_Witness ==
    \E u, v \in Users, k \in Urls :
        /\ u # v /\ HasSession(u) /\ HasSession(v)
        /\ sessions[u].accepted # <<>>
        /\ InStore(k) /\ k \notin reviewed_globally
        /\ k \notin Elems(sessions[u].queue)
        /\ k \in Elems(sessions[v].queue)

----------------------------------------------------------------------------
(* C8 *)

\* the lines that are entries (their url is not empty), in file order
Entries(f) == SelectSeq(f.lines, LAMBDA l : UrlOf(l) # <<>>)

\* k has been rejected: it is in the reviewed set r and file f has no line of it
GoneIn(k, f, r) == k \in r /\ LinesOf(f, k) = {}

Gone(k) == GoneIn(k, file, reviewed_globally)

\* the step changes what load_profiles reads
TouchesStore == file' # file \/ reviewed_globally' # reviewed_globally

\* no list that load_profiles can return from f and reviewed holds k
NeverLoaded(k, f, reviewed) == \A profiles \in load_profiles(f, reviewed) : k \notin Elems(profiles)

\* the step is the synchronous part of a cmd_start of u that assigns the queue
AssignsQueue(u) == At(u, "idle") /\ pc'[u].at = "start_reply"

----------------------------------------------------------------------------
(* C9 *)

\* C9: while no handler of user u is running, a non-empty current of u is the
\* head of u's queue; in particular it is empty when the queue is empty.
C9_CurrentIsHead ==
    \A u \in DOMAIN sessions :
        (At(u, "idle") /\ sessions[u].current # None)
        => (sessions[u].queue # <<>> /\ sessions[u].current = Head(sessions[u].queue))

----------------------------------------------------------------------------
(* C10 *)

\* C10: whenever a user other than the owner named in the callback data can
\* press a button, on_callback leaves the sessions dictionary as it is and
\* returns after the alert: it never reaches the verdict or send_next, so
\* reviewed_globally, the file and the delivered keyboards stay as they are.
C10_IdentityMismatchNoOp ==
    \A f, o \in Users, a \in Actions :
        (f # o /\ At(f, "idle"))
        => \A m \in buttons[o] :
              /\ on_callback_sessions(sessions, f, o) = sessions
              /\ on_callback_pc(sessions, f, o, m, a) = Idle

\* a stranger can press a button of an owner who has a current profile
C10_Witness ==
    \E f, o \in Users :
        /\ f # o /\ At(f, "idle")
        /\ buttons[o] # {}
        /\ HasSession(o) /\ sessions[o].current # None

----------------------------------------------------------------------------
(* C11 *)

\* the step is on_callback of u entering send_next after its verdict
EntersSendNextAfterVerdict(u) == At(u, "cb_sent") /\ pc'[u] # pc[u]

\* C11: when on_callback of user c enters send_next after applying a verdict,
\* c's current is empty, and that send_next does not leave c's current on a url
\* that c has judged.
C11_ClearBeforePresent ==
    [][\A c \in Users :
          EntersSendNextAfterVerdict(c)
          => /\ sessions[c].current = None
             /\ \A k \in Urls : Retired(c, k) => sessions'[c].current # k]_vars

----------------------------------------------------------------------------
(* C12 *)

\* s can be obtained from t by deleting elements
RECURSIVE IsSubseq(_, _)
IsSubseq(s, t) ==
    IF s = <<>> THEN TRUE
    ELSE IF t = <<>> THEN FALSE
    ELSE IF Head(s) = Head(t) THEN IsSubseq(Tail(s), Tail(t))
    ELSE IsSubseq(s, Tail(t))

\* C12: the urls that become user c's current after a /start of c that
\* assigned a queue are, in that order, a subsequence of that queue (each is
\* found in what the earlier ones left of it); every url made current is the
\* head of c's queue; and every step other than such a /start leaves c's queue
\* a subsequence of what it was (elements are deleted, never inserted or moved).
C12_FifoOrder ==
    [][\A c \in Users :
          /\ order'[c].fifo
          /\ (HasSession(c) /\ sessions'[c] # sessions[c])
               => /\ sessions'[c].current \in {None, sessions[c].current}
                     \/ sessions'[c].current = Head(sessions'[c].queue)
                  /\ AssignsQueue(c) \/ IsSubseq(sessions'[c].queue, sessions[c].queue)]_vars

\* c has accepted one url and a different url, the last of the queue that
\* /start assigned, has become c's current after it
C12_Witness ==
    \E c \in Users :
        /\ HasSession(c) /\ At(c, "idle")
        /\ Len(sessions[c].accepted) = 1
        /\ sessions[c].current # None
        /\ sessions[c].current # sessions[c].accepted[1]
        /\ order[c].rest = <<>> /\ order[c].fifo

----------------------------------------------------------------------------
(* C13 *)

\* the step is u's on_callback applying a reject
Rejects(u) == AppliesVerdict(u) /\ pc[u].action = "no"

\* C13: the file is changed only by a step that applies a reject, and that step
\* takes away exactly the entries of the rejected url, keeping the others in
\* order; every other step (accept, /skip, /start, /status, /accepted, a press
\* that does nothing, any fetch outcome) leaves the file as it is.
C13_StoreChangedOnlyByReject ==
    [][IF \E u \in Users : Rejects(u)
       THEN \A u \in Users :
               Rejects(u)
               => /\ file'.exists = file.exists
                  /\ Entries(file') = SelectSeq(Entries(file), LAMBDA l : UrlOf(l) # pc[u].url)
       ELSE file' = file]_vars

\* a reject has just taken the lines of one url out of the file, and an entry
\* of another url is still there
C13_Witness ==
    \E u \in Users, k, k2 \in Urls :
        /\ At(u, "cb_sent")
        /\ Gone(k) /\ InStore(k2)

----------------------------------------------------------------------------
(* C14 *)

\* C14: a url k enters reviewed_globally only in a step in which the on_callback
\* of some user u applies an accept or a reject of k while u's current is k;
\* /start, /skip, /status, /accepted and send_next never add to it.
C14_RetiredOnlyByJudgeOnCurrent ==
    [][\A k \in Urls :
          (k \in reviewed_globally' /\ k \notin reviewed_globally)
          => \E u \in Users :
                /\ AppliesVerdict(u)
                /\ pc[u].action \in Actions
                /\ pc[u].url = k
                /\ sessions[u].current = k]_vars

\* two urls have entered reviewed_globally, the second one just now
C14_Witness ==
    \E u \in Users :
        /\ At(u, "cb_sent")
        /\ Cardinality(reviewed_globally) = 2

----------------------------------------------------------------------------
(* C15 *)

\* C15: no step takes a url out of reviewed_globally.
C15_RetiredMonotone ==
    [][reviewed_globally \subseteq reviewed_globally']_vars

\* a /start has run after a url entered reviewed_globally, and has loaded a
\* queue without that url
C15_Witness ==
    \E u \in Users, k \in Urls :
        /\ At(u, "start_reply")
        /\ k \in reviewed_globally
        /\ k \notin Elems(sessions[u].queue)

----------------------------------------------------------------------------
(* C16 *)

\* C16: while no handler of user u is running, u's current is empty only if
\* u's queue is empty.
C16_NoEmptyCurrentWhilePending ==
    \A u \in DOMAIN sessions :
        (At(u, "idle") /\ sessions[u].current = None) => sessions[u].queue = <<>>

----------------------------------------------------------------------------
(* C17 *)

\* C17: no url of reviewed_globally is in any session's queue or is any
\* session's current.
C17_PurgeComplete ==
    \A u \in DOMAIN sessions :
        \A k \in reviewed_globally :
            k \notin Elems(sessions[u].queue) /\ sessions[u].current # k

----------------------------------------------------------------------------
(* C18 *)

\* C18: the queue that a /start of user c assigns holds every url exactly as
\* often as the file, read in that same step, has entries of it if the url is
\* not in reviewed_globally, and not at all if it is; it holds nothing else.
C18_StartLoadsNonRetired ==
    [][\A c \in Users :
          AssignsQueue(c)
          => /\ Elems(sessions'[c].queue) \subseteq Urls
             /\ \A k \in Urls :
                   Occurrences(sessions'[c].queue, k) =
                       IF k \in reviewed_globally' THEN 0
                       ELSE Cardinality(LinesOf(file', k))]_vars

\* a /start has just assigned a queue while the file still holds an entry of a
\* url that is in reviewed_globally
C18_Witness ==
    \E c \in Users, k \in Urls :
        /\ At(c, "start_reply")
        /\ k \in reviewed_globally /\ InStore(k)

----------------------------------------------------------------------------
(* C19 *)

\* C19: every step that applies a verdict of user u, and every /skip of u on a
\* non-empty queue, leaves u's queue exactly one element shorter, and no step
\* other than a /start that assigns the queue makes any queue longer.
C19_ProgressToCompletion ==
    [][\A u \in Users :
          /\ AppliesVerdict(u)
               => Len(sessions'[u].queue) = Len(sessions[u].queue) - 1
          /\ (CmdSkip(u) /\ SessionOf(u).queue # <<>>)
               => Len(sessions'[u].queue) = Len(sessions[u].queue) - 1
          /\ (HasSession(u) /\ ~AssignsQueue(u))
               => Len(sessions'[u].queue) <= Len(sessions[u].queue)]_vars

----------------------------------------------------------------------------
(* C20 *)

\* send_next of u resumes from the fetch of the avatar
FetchReturns(u) == At(u, "sn_fetch") /\ pc'[u] # pc[u]

\* C20: whatever get_avatar_path does, the send_next of user u that called it
\* delivers to u a message for the head url with the yes/no keyboard, and
\* reviewed_globally and the file are left as they are.
C20_FetchFailureDegrades ==
    [][\A u \in Users :
          FetchReturns(u)
          => /\ pc[u].url \in buttons'[u]
             /\ UNCHANGED <<reviewed_globally, file>>]_vars

====
